---- MODULE Spec2Model ----
(***************************************************************************)
(* crate-git-revision: the revision resolver __init of src/lib.rs.         *)
(*                                                                         *)
(* Text is a sequence of symbols.  A symbol is one byte/character of data  *)
(* ("a", "/", "\n", ...) or one literal fragment of a format string        *)
(* ("cargo:rerun-if-changed=", "/index", ...).  "0xFF" is a byte that is   *)
(* not valid UTF-8; "U+FFFD" is the replacement character.                 *)
(***************************************************************************)
EXTENDS Naturals, Sequences, FiniteSets

VARIABLES
    current_dir,  \* the start directory handed to __init
    vcs_file,     \* state of <current_dir>/.cargo_vcs_info.json on disk
    rev_parse,    \* what `git rev-parse --git-dir` does in current_dir
    describe,     \* what `git describe ...` does in current_dir
    pc,           \* position of the running call
    git_sha,      \* the local `git_sha: Option<String>`
    git_dir,      \* the local `git_dir` (trimmed text)
    w,            \* bytes the call has written to the sink
    result,       \* <<>> while running, <<"Ok">> or <<"Err", e>> once returned
    spawned,      \* git subcommands the call has spawned, in order
    sink_err,     \* the error the sink raised in this call, or "none"
    call_vcs,     \* the snapshot-file state the call saw
    prev          \* <<>> or <<r>>: the last earlier call that returned Ok

vars == <<current_dir, vcs_file, rev_parse, describe, pc, git_sha, git_dir, w,
          result, spawned, sink_err, call_vcs, prev>>

world == <<current_dir, rev_parse, describe>>

-----------------------------------------------------------------------------
(* Bounds and input alphabets *)

MaxHashLen == 2

HashDigits == {"3", "c"}

HexDigits == {"0", "1", "2", "3", "4", "5", "6", "7", "8", "9",
              "a", "b", "c", "d", "e", "f"}

WhiteSpace == {" ", "\t", "\n", "\r"}

DirtySuffix == <<"-", "d", "i", "r", "t", "y">>

SeqsUpTo(S, n) == UNION {[1..k -> S] : k \in 1..n}

Hashes == SeqsUpTo(HashDigits, MaxHashLen)

-----------------------------------------------------------------------------
(* Option<String> *)

None == [some |-> FALSE, val |-> <<>>]

Some(s) == [some |-> TRUE, val |-> s]

-----------------------------------------------------------------------------
(* Text conversions *)

RECURSIVE Concat(_)
Concat(pieces) ==
    IF pieces = <<>> THEN <<>> ELSE Head(pieces) \o Concat(Tail(pieces))

\* String::from_utf8_lossy: every invalid byte becomes U+FFFD.
from_utf8_lossy(bytes) ==
    [i \in 1..Len(bytes) |-> IF bytes[i] = "0xFF" THEN "U+FFFD" ELSE bytes[i]]

\* str::from_utf8: Err on any invalid byte, else the same text.
from_utf8(bytes) ==
    IF \E i \in 1..Len(bytes) : bytes[i] = "0xFF" THEN None ELSE Some(bytes)

RECURSIVE trim_start(_)
trim_start(s) ==
    IF s # <<>> /\ Head(s) \in WhiteSpace THEN trim_start(Tail(s)) ELSE s

RECURSIVE trim_end(_)
trim_end(s) ==
    IF s # <<>> /\ s[Len(s)] \in WhiteSpace
    THEN trim_end(SubSeq(s, 1, Len(s) - 1))
    ELSE s

\* str::trim
trim(s) == trim_end(trim_start(s))

\* {:?} of a Path: the path in double quotes.
DebugPath(p) == <<"\"">> \o p \o <<"\"">>

\* {:?} of an io::Error: one line naming the kind.
DebugErr(e) == <<"Os { kind: ", e, " }">>

-----------------------------------------------------------------------------
(* JSON documents and the derived Deserialize of CargoVcsInfo *)

JStr(s) == [t |-> "str", s |-> s, kv |-> <<>>]

JNum == [t |-> "num", s |-> <<>>, kv |-> <<>>]

JObj(kv) == [t |-> "obj", s |-> <<>>, kv |-> kv]

JArr(items) == [t |-> "arr", s |-> <<>>, kv |-> items]

\* Text that is not JSON at all.
JInvalid == [t |-> "invalid", s |-> <<>>, kv |-> <<>>]

\* The values an object holds under `key`, in order.
FieldValues(kv, key) ==
    LET idx == {i \in 1..Len(kv) : kv[i][1] = key}
        RECURSIVE Pick(_)
        Pick(i) == IF i > Len(kv) THEN <<>>
                   ELSE (IF i \in idx THEN <<kv[i][2]>> ELSE <<>>) \o Pick(i + 1)
    IN Pick(1)

DeString(v) == IF v.t = "str" THEN Some(v.s) ELSE None

\* A derived struct visitor with one field: a map with that key exactly once
\* (other keys ignored), or a sequence of exactly one element.
StructField(v, key) ==
    IF v.t = "obj"
    THEN LET vs == FieldValues(v.kv, key)
         IN IF Len(vs) = 1 THEN <<vs[1]>> ELSE <<>>
    ELSE IF v.t = "arr" /\ Len(v.kv) = 1 THEN <<v.kv[1]>>
    ELSE <<>>

DeCargoVcsInfoGit(v) ==
    LET f == StructField(v, "sha1")
    IN IF f = <<>> THEN None ELSE DeString(f[1])

\* serde_json::from_str::<CargoVcsInfo>, reduced to .git.sha1
DeCargoVcsInfo(v) ==
    LET f == StructField(v, "git")
    IN IF f = <<>> THEN None ELSE DeCargoVcsInfoGit(f[1])

-----------------------------------------------------------------------------
(* The environment: snapshot file, git, start directory *)

Absent == [st |-> "absent", json |-> JInvalid]

Unreadable == [st |-> "unreadable", json |-> JInvalid]

Text(j) == [st |-> "text", json |-> j]

ShaA == <<"a", "b", "c", "1", "2", "3">>

Published(sha) == JObj(<< <<"git", JObj(<< <<"sha1", JStr(sha)>> >>)>> >>)

PublishedExtra(sha) ==
    JObj(<< <<"git", JObj(<< <<"sha1", JStr(sha)>>, <<"dirty", JNum>> >>)>>,
            <<"path_in_vcs", JStr(<<>>)>> >>)

VcsDocs ==
    { Published(ShaA), Published(<<>>), PublishedExtra(ShaA),
      JArr(<< JArr(<< JStr(ShaA) >>) >>),
      JInvalid,
      JObj(<<>>),
      JObj(<< <<"git", JObj(<< <<"sha1", JNum>> >>)>> >>) }

VcsStates == {Absent, Unreadable} \cup {Text(j) : j \in VcsDocs}

RootDir == <<"/", "r">>

SubDir == <<"/", "r", "/", "s">>

Dirs == {RootDir, SubDir}

DotGit == <<".", "g", "i", "t">>

SpawnErrors == {"NotFound", "PermissionDenied"}

SpawnErr(e) == [ok |-> FALSE, err |-> e, stdout |-> <<>>]

Output(bytes) == [ok |-> TRUE, err |-> "none", stdout |-> bytes]

RevParseStdouts ==
    { <<>>,
      DotGit \o <<"\n">>,
      RootDir \o <<"/">> \o DotGit \o <<"\n">>,
      <<"\t">> \o DotGit \o <<" ", "\n">>,
      <<"/", "0xFF", "/">> \o DotGit \o <<"\n">> }

DescribeStdouts ==
    { <<>>, <<"0xFF", "\n">> }
    \cup {h \o <<"\n">> : h \in Hashes}
    \cup {h \o DirtySuffix \o <<"\n">> : h \in Hashes}

CommandOutcomes(stdouts) ==
    {SpawnErr(e) : e \in SpawnErrors} \cup {Output(b) : b \in stdouts}

SinkErrors == {"BrokenPipe", "WriteZero"}

-----------------------------------------------------------------------------
(* Directive lines, as the pieces of their format strings *)

RERUN == "cargo:rerun-if-changed="

ENV == "cargo:rustc-env=GIT_REVISION="

WARN == "cargo:warning="

RerunLine(dir, name) == << <<RERUN>>, dir, <<name, "\n">> >>

IndexLine(dir) == RerunLine(dir, "/index")

HeadLine(dir) == RerunLine(dir, "/HEAD")

RefsLine(dir) == RerunLine(dir, "/refs")

EnvLine(sha) == << <<ENV>>, sha, <<"\n">> >>

GitDirWarning(e) ==
    << <<WARN, "Error getting git directory to get git revision: ">>,
       DebugErr(e), <<"\n">> >>

DescribeWarning(dir, e) ==
    << <<WARN, "Error getting git revision from ">>, DebugPath(dir),
       <<": ">>, DebugErr(e), <<"\n">> >>

-----------------------------------------------------------------------------
(* The steps of __init *)

Idle == pc \in {"idle", "returned"}

\* Variant: the revision of an earlier call is kept.
GitShaKept(carried) == carried

\* `let mut git_sha: Option<String> = None;`
InitGitSha(carried) == None

\* Variant: a file that does not parse yields the Default CargoVcsInfo.
ShaOrDefault(file) ==
    IF file.st # "text" THEN None
    ELSE IF file.json.t # "invalid" /\ DeCargoVcsInfo(file.json).some
    THEN DeCargoVcsInfo(file.json)
    ELSE Some(<<>>)

\* read_to_string + serde_json::from_str, both failures ignored
ShaFromVcsInfo(file) ==
    IF file.st = "text" /\ file.json.t # "invalid"
    THEN DeCargoVcsInfo(file.json)
    ELSE None

\* Variant: the trim is missing.
GitDirUntrimmed(stdout) == from_utf8_lossy(stdout)

\* from_utf8_lossy(&git_dir).trim()
GitDirOf(stdout) == trim(from_utf8_lossy(stdout))

\* Variant: the describe output is trimmed before use.
RevisionTrimmed(stdout) ==
    IF from_utf8(stdout).some THEN Some(trim(stdout)) ELSE None

\* Variant: the describe output is decoded lossily, as the git directory is.
RevisionLossy(stdout) == Some(from_utf8_lossy(stdout))

\* str::from_utf8(&git_describe).ok().map(str::to_string)
RevisionOf(stdout) == from_utf8(stdout)

\* Variant: the repository is consulted even with a snapshot revision.
PcAlwaysRevParse(sha) == "rev_parse"

PcAfterVcsInfo(sha) == IF sha.some THEN "env" ELSE "rev_parse"

\* Variant: a spawn error falls through to the invalidation directives.
PcRevParseFallsThrough(outcome) == "index"

PcAfterRevParse(outcome) == IF outcome.ok THEN "index" ELSE "warn_git_dir"

\* Variant: a spawn error of git describe is dropped without a warning.
PcDescribeNoWarning(outcome) == "env"

PcAfterDescribe(outcome) == IF outcome.ok THEN "env" ELSE "warn_describe"

\* Variant: the write error is discarded.
ErrSwallowed(e) == <<"Ok">>

ErrResult(e) == <<"Err", e>>

\* A writeln! that succeeds: the whole line reaches the sink.
Writeln(at, pieces, next) ==
    /\ pc = at
    /\ w' = w \o Concat(pieces)
    /\ pc' = next
    /\ result' = IF next = "returned" THEN <<"Ok">> ELSE result
    /\ UNCHANGED <<world, vcs_file, git_sha, git_dir, spawned, sink_err,
                   call_vcs, prev>>

\* A writeln! that fails after the sink accepted some of the pieces: `?`
\* returns the error.
WritelnFails(at, pieces) ==
    /\ pc = at
    /\ \E e \in SinkErrors, k \in 0..(Len(pieces) - 1) :
         /\ w' = w \o Concat(SubSeq(pieces, 1, k))
         /\ sink_err' = e
         /\ result' = ErrResult(e)
    /\ pc' = "returned"
    /\ UNCHANGED <<world, vcs_file, git_sha, git_dir, spawned, call_vcs, prev>>

Remember ==
    IF pc = "returned" /\ result = <<"Ok">>
    THEN << [vcs |-> call_vcs, w |-> w, result |-> result, spawned |-> spawned] >>
    ELSE prev

\* Entry to __init with a fresh sink.
Enter ==
    /\ Idle
    /\ pc' = "read_vcs"
    /\ git_sha' = InitGitSha(git_sha)
    /\ git_dir' = <<>>
    /\ w' = <<>>
    /\ result' = <<>>
    /\ spawned' = <<>>
    /\ sink_err' = "none"
    /\ UNCHANGED <<world, vcs_file, call_vcs>>

\* A call, the previous successful call kept for comparison.
Call == Enter /\ prev' = Remember

\* A call with no record kept of earlier calls.
CallUnrecorded == Enter /\ UNCHANGED prev

ReadVcsInfo ==
    /\ pc = "read_vcs"
    /\ call_vcs' = vcs_file
    /\ LET sha == ShaFromVcsInfo(vcs_file)
       IN /\ git_sha' = IF sha.some THEN sha ELSE git_sha
          /\ pc' = PcAfterVcsInfo(git_sha')
    /\ UNCHANGED <<world, vcs_file, git_dir, w, result, spawned, sink_err, prev>>

RevParse ==
    /\ pc = "rev_parse"
    /\ spawned' = Append(spawned, "rev-parse")
    /\ git_dir' = IF rev_parse.ok THEN GitDirOf(rev_parse.stdout) ELSE git_dir
    /\ pc' = PcAfterRevParse(rev_parse)
    /\ UNCHANGED <<world, vcs_file, git_sha, w, result, sink_err, call_vcs, prev>>

WarnGitDir == Writeln("warn_git_dir", GitDirWarning(rev_parse.err), "env")

WriteIndex == Writeln("index", IndexLine(git_dir), "head")

WriteHead == Writeln("head", HeadLine(git_dir), "refs")

WriteRefs == Writeln("refs", RefsLine(git_dir), "describe")

Describe ==
    /\ pc = "describe"
    /\ spawned' = Append(spawned, "describe")
    /\ git_sha' = IF describe.ok THEN RevisionOf(describe.stdout) ELSE git_sha
    /\ pc' = PcAfterDescribe(describe)
    /\ UNCHANGED <<world, vcs_file, git_dir, w, result, sink_err, call_vcs, prev>>

WarnDescribe ==
    Writeln("warn_describe", DescribeWarning(current_dir, describe.err), "env")

WriteEnv == git_sha.some /\ Writeln("env", EnvLine(git_sha.val), "returned")

SkipEnv ==
    /\ pc = "env"
    /\ ~git_sha.some
    /\ pc' = "returned"
    /\ result' = <<"Ok">>
    /\ UNCHANGED <<world, vcs_file, git_sha, git_dir, w, spawned, sink_err,
                   call_vcs, prev>>

WarnGitDirFails == WritelnFails("warn_git_dir", GitDirWarning(rev_parse.err))

WriteIndexFails == WritelnFails("index", IndexLine(git_dir))

WriteHeadFails == WritelnFails("head", HeadLine(git_dir))

WriteRefsFails == WritelnFails("refs", RefsLine(git_dir))

WarnDescribeFails ==
    WritelnFails("warn_describe", DescribeWarning(current_dir, describe.err))

WriteEnvFails == git_sha.some /\ WritelnFails("env", EnvLine(git_sha.val))

\* Between calls the snapshot file is written (cargo package) or removed.
WriteVcsFile ==
    /\ Idle
    /\ \E f \in VcsStates \ {Absent, vcs_file} : vcs_file' = f
    /\ UNCHANGED <<world, pc, git_sha, git_dir, w, result, spawned, sink_err,
                   call_vcs, prev>>

RemoveVcsFile ==
    /\ Idle
    /\ vcs_file # Absent
    /\ vcs_file' = Absent
    /\ UNCHANGED <<world, pc, git_sha, git_dir, w, result, spawned, sink_err,
                   call_vcs, prev>>

Init ==
    /\ current_dir \in Dirs
    /\ vcs_file \in VcsStates
    /\ rev_parse \in CommandOutcomes(RevParseStdouts)
    /\ describe \in CommandOutcomes(DescribeStdouts)
    /\ pc = "idle"
    /\ git_sha = None
    /\ git_dir = <<>>
    /\ w = <<>>
    /\ result = <<>>
    /\ spawned = <<>>
    /\ sink_err = "none"
    /\ call_vcs = Absent
    /\ prev = <<>>

Steps ==
    \/ ReadVcsInfo
    \/ RevParse
    \/ WarnGitDir
    \/ WriteIndex
    \/ WriteHead
    \/ WriteRefs
    \/ Describe
    \/ WarnDescribe
    \/ WriteEnv
    \/ SkipEnv
    \/ WriteVcsFile
    \/ RemoveVcsFile

Next == Call \/ Steps

\* __init writing to a sink that cannot fail (a Vec<u8>)
Spec == Init /\ [][Next]_vars

NextFaulty ==
    \/ CallUnrecorded
    \/ Steps
    \/ WarnGitDirFails
    \/ WriteIndexFails
    \/ WriteHeadFails
    \/ WriteRefsFails
    \/ WarnDescribeFails
    \/ WriteEnvFails

\* __init writing to a sink any of whose writes may fail
SpecFaulty == Init /\ [][NextFaulty]_vars

-----------------------------------------------------------------------------
(* Vocabulary of the properties *)

Returned == pc = "returned"

Ok == <<"Ok">>

Count(s, sym) == Cardinality({i \in 1..Len(s) : s[i] = sym})

StartsWith(s, p) == Len(p) <= Len(s) /\ SubSeq(s, 1, Len(p)) = p

After(s, p) == SubSeq(s, Len(p) + 1, Len(s))

\* The newline-terminated lines of s, without their newlines.
RECURSIVE LinesFrom(_, _)
LinesFrom(s, cur) ==
    IF s = <<>> THEN (IF cur = <<>> THEN <<>> ELSE <<cur>>)
    ELSE IF Head(s) = "\n" THEN <<cur>> \o LinesFrom(Tail(s), <<>>)
    ELSE LinesFrom(Tail(s), Append(cur, Head(s)))

Lines(s) == LinesFrom(s, <<>>)

\* The directives cargo reads from s: its non-empty lines.
Directives(s) == SelectSeq(Lines(s), LAMBDA l : l # <<>>)

IsHex(h) == h # <<>> /\ \A i \in 1..Len(h) : h[i] \in HexDigits

\* t is s without its leading and trailing whitespace.
IsTrimOf(t, s) ==
    \E i \in 0..Len(s), j \in 0..Len(s) :
        /\ i + j <= Len(s)
        /\ t = SubSeq(s, i + 1, Len(s) - j)
        /\ \A k \in 1..i : s[k] \in WhiteSpace
        /\ \A k \in (Len(s) - j + 1)..Len(s) : s[k] \in WhiteSpace
        /\ t = <<>> \/ (t[1] \notin WhiteSpace /\ t[Len(t)] \notin WhiteSpace)

Substrings(s) == {SubSeq(s, i, j) : i \in 1..(Len(s) + 1), j \in 0..Len(s)}

\* The three invalidation directives for control directory gd, byte for byte.
Invalidation(gd) ==
    <<RERUN>> \o gd \o <<"/index", "\n">> \o
    <<RERUN>> \o gd \o <<"/HEAD", "\n">> \o
    <<RERUN>> \o gd \o <<"/refs", "\n">>

\* The file is a JSON object {git: {sha1: S, ...}, ...}.
HasSha(file, S) ==
    /\ file.st = "text"
    /\ file.json.t = "obj"
    /\ \E i \in 1..Len(file.json.kv) :
         /\ file.json.kv[i][1] = "git"
         /\ file.json.kv[i][2].t = "obj"
         /\ \E k \in 1..Len(file.json.kv[i][2].kv) :
              file.json.kv[i][2].kv[k] = <<"sha1", JStr(S)>>

\* The file is absent, unreadable, or does not deserialize as CargoVcsInfo.
Unparsed(file) == file.st # "text" \/ ~DeCargoVcsInfo(file.json).some

Invoked(cmd) == \E i \in 1..Len(spawned) : spawned[i] = cmd

InvalidUtf8(bytes) == \E i \in 1..Len(bytes) : bytes[i] = "0xFF"

\* w is exactly one cargo:warning= line.
OneWarningLine(s) ==
    /\ s # <<>>
    /\ s[1] = WARN
    /\ Count(s, WARN) = 1
    /\ s[Len(s)] = "\n"
    /\ Count(s, "\n") = 1

-----------------------------------------------------------------------------
(* C1 *)

\* C1: with a valid snapshot file {git:{sha1:S}} and a working sink, __init
\* returns Ok, its whole output is the one line
\* cargo:rustc-env=GIT_REVISION=S, and no git subprocess was spawned,
\* whatever git would have answered.
C1_SnapshotOnly ==
    \A S \in {ShaA, <<>>} :
        (Returned /\ HasSha(call_vcs, S) /\ sink_err = "none") =>
            /\ result = Ok
            /\ w = <<ENV>> \o S \o <<"\n">>
            /\ spawned = <<>>

C1_Witness ==
    /\ Returned
    /\ HasSha(call_vcs, ShaA)
    /\ call_vcs.json = PublishedExtra(ShaA)
    /\ rev_parse = Output(DotGit \o <<"\n">>)
    /\ describe.ok
    /\ w = <<ENV>> \o ShaA \o <<"\n">>

-----------------------------------------------------------------------------
(* C2 *)

C2_Shape(gd) ==
    /\ StartsWith(w, Invalidation(gd))
    /\ Count(w, RERUN) = 3
    /\ Count(w, ENV) <= 1

-----------------------------------------------------------------------------
(* C3 *)

\* C3: __init returns Ok when every sink write succeeded and returns the
\* sink's error when a write failed, for every snapshot-file state and every
\* outcome of the two git invocations.
C3_ErrIffSinkFails ==
    Returned =>
        /\ sink_err = "none" => result = Ok
        /\ sink_err # "none" => result = <<"Err", sink_err>>

C3_Witness ==
    /\ Returned
    /\ sink_err = "WriteZero"
    /\ result = <<"Err", "WriteZero">>
    /\ Count(w, RERUN) = 3
    /\ Count(w, "\n") = 2

-----------------------------------------------------------------------------
(* C4 *)

\* C4: no snapshot file, and git runs but finds no repository (both
\* invocations print nothing): __init returns Ok and writes no
\* cargo:rustc-env=GIT_REVISION= directive.
C4_NoRepositoryNoRevision ==
    (/\ Returned
     /\ call_vcs = Absent
     /\ rev_parse = Output(<<>>)
     /\ describe = Output(<<>>)) =>
        /\ result = Ok
        /\ Count(w, ENV) = 0

-----------------------------------------------------------------------------
(* C5 *)

LiveGitDirs == {DotGit, RootDir \o <<"/">> \o DotGit}

C5_Case(gd, h, suffix) ==
    /\ Returned
    /\ call_vcs = Absent
    /\ rev_parse = Output(gd \o <<"\n">>)
    /\ describe = Output(h \o suffix \o <<"\n">>)

-----------------------------------------------------------------------------
(* C6 *)

C6_Pair(a, b) == a = Absent /\ b # Absent /\ Unparsed(b)

\* C6: a run that finds the snapshot file unreadable or unparseable goes to
\* the repository lookup and has the same output and result as a run in the
\* same directory with no snapshot file.
C6_UnparsedLikeAbsent ==
    (/\ Returned
     /\ prev # <<>>
     /\ C6_Pair(prev[1].vcs, call_vcs) \/ C6_Pair(call_vcs, prev[1].vcs)) =>
        /\ w = prev[1].w
        /\ result = prev[1].result
        /\ spawned = prev[1].spawned
        /\ spawned # <<>>
        /\ spawned[1] = "rev-parse"

C6_Witness ==
    /\ Returned
    /\ prev # <<>>
    /\ prev[1].vcs = Absent
    /\ call_vcs = Text(JObj(<< <<"git", JObj(<< <<"sha1", JNum>> >>)>> >>))
    /\ Count(w, RERUN) = 3
    /\ Count(w, ENV) = 1
    /\ Count(w, WARN) = 0

-----------------------------------------------------------------------------
(* C7 *)

-----------------------------------------------------------------------------
(* C8 *)

-----------------------------------------------------------------------------
(* C9 *)

-----------------------------------------------------------------------------
(* C10 *)

\* C10: git describe runs but its stdout is not valid UTF-8: the complete
\* output is the three invalidation directives, with no GIT_REVISION line
\* and no warning, and the result is Ok.
C10_NonUtf8Describe ==
    (/\ Returned
     /\ Invoked("describe")
     /\ describe.ok
     /\ InvalidUtf8(describe.stdout)) =>
        /\ w = Invalidation(git_dir)
        /\ Count(w, ENV) = 0
        /\ Count(w, WARN) = 0
        /\ result = Ok

C10_Witness ==
    /\ Returned
    /\ Invoked("describe")
    /\ describe = Output(<<"0xFF", "\n">>)
    /\ rev_parse = Output(DotGit \o <<"\n">>)
    /\ w = Invalidation(DotGit)

====
